---------------------------- MODULE Spec2Model ----------------------------
(***************************************************************************)
(* Lamprey / host / predator ecosystem simulation (mathmodel(2).py).       *)
(*                                                                         *)
(* The script integrates a four-component rate function over a time grid,  *)
(* one sub-interval at a time, with a piecewise-constant resource level,   *)
(* and then plots series derived from the trajectory.                      *)
(*                                                                         *)
(* Number representation.  Python floats are modelled in fixed point:      *)
(*   - a population x is stored as the integer x * UNIT;                   *)
(*   - a rate r is stored as the integer r * 1000 * UNIT * UNIT, which is  *)
(*     exact for every coefficient of the rate function (all of them are   *)
(*     multiples of 0.001);                                                *)
(*   - time points are integers.                                           *)
(* scipy's odeint is an external solver.  It is modelled by one explicit   *)
(* Euler step over the sub-interval, rounded down to the fixed-point       *)
(* lattice: a deterministic function of the right-hand side, the start     *)
(* state and the interval, as the library routine is.                      *)
(***************************************************************************)
EXTENDS Integers, Sequences, FiniteSets

\* ------------------------------------------------------------------ bounds
\* Fixed-point resolution of a population: UNIT steps per individual.
UNIT == 100
\* Longest time grid (number of grid points); the shortest has 2.
MaxN == 3
\* Largest gap between two consecutive grid points.
MaxDt == 2
\* Largest component of an initial state, in individuals.
MaxPop == 1

VARIABLES
    pc,               \* position of the script
    t,                \* time grid                               (line 51)
    resource_levels,  \* forcing schedule, 0 = scarce, 1 = abundant (line 55)
    initial_state,    \* initial state vector                     (line 50)
    current_state,    \* state carried across iterations          (line 59)
    states,           \* trajectory buffer                        (line 58)
    i,                \* number of loop iterations completed       (line 60)
    res,              \* odeint's last return value: <<y(t0), y(t1)>> (line 63)
    male_ratio,       \* male fraction series                     (line 86)
    plotted,          \* (x, y) pairs handed to the last drawing step
    error,            \* name of the Python exception raised, "" if none
    warned,           \* sub-intervals for which odeint issued ODEintWarning
    dydt              \* last direct evaluation of ecosystem_model

vars == <<pc, t, resource_levels, initial_state, current_state, states, i,
          res, male_ratio, plotted, error, warned, dydt>>

\* ----------------------------------------------------------------- helpers
Min(a, b) == IF a < b THEN a ELSE b
Abs(a) == IF a < 0 THEN -a ELSE a

RECURSIVE GCD(_, _)
GCD(a, b) == IF b = 0 THEN a ELSE GCD(b, a % b)

\* Python slice s[lo:hi] of a sequence, for 0 <= lo, 0 <= hi (clipped).
PySlice(s, lo, hi) == SubSeq(s, lo + 1, Min(hi, Len(s)))

\* states[:, c] : column c (0-based) of the trajectory array.
Column(a, c) == [k \in 1..Len(a) |-> a[k][c + 1]]

\* ------------------------------------------------------ the rate function
\* Mutant: the sex allocation ignores the resource level.
ecosystem_model_fixed_ratio(state, tm, resource_level) ==
    LET m == state[1]
        f == state[2]
        h == state[3]
        p == state[4]
        eel_birth == 8 * f
        eel_death == 100 * (m + f) * UNIT + 20 * p * (m + f)
    IN  << 78 * eel_birth * UNIT - eel_death,
           22 * eel_birth * UNIT - eel_death,
           500 * h * UNIT - (50 * h * UNIT + 30 * (m + f) * h),
           40 * p * (m + f) - 200 * p * UNIT >>

\* Mutant: the death term is charged to the males only.
ecosystem_model_no_female_death(state, tm, resource_level) ==
    LET m == state[1]
        f == state[2]
        h == state[3]
        p == state[4]
        ratio_m == IF 2 * resource_level < 1 THEN 78 ELSE 56
        eel_birth == 8 * f
        eel_death == 100 * (m + f) * UNIT + 20 * p * (m + f)
    IN  << ratio_m * eel_birth * UNIT - eel_death,
           (100 - ratio_m) * eel_birth * UNIT,
           500 * h * UNIT - (50 * h * UNIT + 30 * (m + f) * h),
           40 * p * (m + f) - 200 * p * UNIT >>

\* ecosystem_model(state, t, resource_level), lines 16-44.
\* Populations are in 1/UNIT; every result is the rate times 1000*UNIT^2.
\*   male_ratio   0.78 / 0.56        -> ratio_m, in percent
\*   eel_birth    0.8 * f            -> 8 * f            (times 10)
\*   eel_death    0.1*(m+f) + 0.02*p*(m+f)
\*   host         0.5*h - (0.05*h + 0.03*(m+f)*h)
\*   predator     0.04*p*(m+f) - 0.2*p
ecosystem_model(state, tm, resource_level) ==
    LET m == state[1]
        f == state[2]
        h == state[3]
        p == state[4]
        ratio_m == IF 2 * resource_level < 1 THEN 78 ELSE 56
        ratio_f == 100 - ratio_m
        eel_birth == 8 * f
        eel_death == 100 * (m + f) * UNIT + 20 * p * (m + f)
        host_birth == 500 * h * UNIT
        host_death == 50 * h * UNIT + 30 * (m + f) * h
        predator_birth == 40 * p * (m + f)
        predator_death == 200 * p * UNIT
        d_m == ratio_m * eel_birth * UNIT - eel_death
        d_f == ratio_f * eel_birth * UNIT - eel_death
        d_h == host_birth - host_death
        d_p == predator_birth - predator_death
    IN  <<d_m, d_f, d_h, d_p>>

\* ------------------------------------------------------------- the solver
\* odeint(ecosystem_model, y0, t_step, args=(resource_level,)), line 63.
\* Returns one row per entry of t_step: y0 itself, then the state at
\* t_step[1].  The external solver is stood in for by one Euler step.
odeint(y0, t_step, resource_level) ==
    LET r == ecosystem_model(y0, t_step[1], resource_level)
        dt == t_step[2] - t_step[1]
    IN  << y0, [c \in 1..4 |-> y0[c] + ((dt * r[c]) \div (1000 * UNIT))] >>

\* ------------------------------------------------------ the integration loop
\* Mutant: the loop stops one sub-interval early.
LoopCountShort(grid) == Len(grid) - 2

\* range(len(t)-1), line 60.
LoopCount(grid) == Len(grid) - 1

\* t_step = [t[i], t[i+1]], line 62 (i is 0-based).
TStep(grid, k) == << grid[k + 1], grid[k + 2] >>

\* Mutant: the regime is sampled at the right end of the sub-interval.
RegimeAtRight(rl, k) == rl[k + 2]

\* resource_levels[i], line 63 (i is 0-based).
RegimeAt(rl, k) == rl[k + 1]

\* Mutant: negative populations are clamped to zero.
NextStateClamped(r) ==
    [c \in 1..4 |-> IF r[Len(r)][c] < 0 THEN 0 ELSE r[Len(r)][c]]

\* current_state = res[-1], line 64.
NextState(r) == r[Len(r)]

\* One pass of the loop body for a well-shaped call, lines 62-65:
\* the values of res, current_state and states after iteration k.
LoopBody(cur, sts, grid, rl, k) ==
    LET r == odeint(cur, TStep(grid, k), RegimeAt(rl, k))
        nxt == NextState(r)
    IN  [res |-> r, current_state |-> nxt, states |-> Append(sts, nxt)]

\* The loop of lines 58-65 run for n iterations on inputs (y0, grid, rl).
RECURSIVE Integrate(_, _, _, _)
Integrate(y0, grid, rl, n) ==
    IF n = 0
    THEN [res |-> <<>>, current_state |-> y0, states |-> <<>>]
    ELSE LET prev == Integrate(y0, grid, rl, n - 1)
         IN  LoopBody(prev.current_state, prev.states, grid, rl, n - 1)

\* Where the script goes once k iterations are done.
AfterLoop(grid, k) == IF k < LoopCount(grid) THEN "loop" ELSE "fig1"


\* ------------------------------------------------------- derived quantities
\* Results of a float division that are not finite numbers.
NaN == [num |-> 0, den |-> 0]
PosInf == [num |-> 1, den |-> 0]
NegInf == [num |-> -1, den |-> 0]

\* Mutant: a "safe" division that returns 0 when the denominator is 0.
np_divide_safe(a, b) ==
    IF b = 0 THEN [num |-> 0, den |-> 1]
    ELSE LET g == GCD(Abs(a), Abs(b))
             s == IF b < 0 THEN -1 ELSE 1
         IN  [num |-> (s * a) \div g, den |-> (s * b) \div g]

\* One element of the numpy float division of line 86: a quotient in lowest
\* terms; 0/0 is nan and x/0 is +-inf (numpy warns, it does not raise).
np_divide(a, b) ==
    IF b = 0 THEN (IF a = 0 THEN NaN ELSE IF a > 0 THEN PosInf ELSE NegInf)
    ELSE LET g == GCD(Abs(a), Abs(b))
             s == IF b < 0 THEN -1 ELSE 1
         IN  [num |-> (s * a) \div g, den |-> (s * b) \div g]

\* states[:,0] / (states[:,0] + states[:,1]), line 86.
MaleRatio(a) == [k \in 1..Len(a) |-> np_divide(a[k][1], a[k][1] + a[k][2])]

\* states[:,0] + states[:,1], lines 137 and 163.
EelTotal(a) == [k \in 1..Len(a) |-> a[k][1] + a[k][2]]

\* One plotted line: the x and y data handed to matplotlib.
Line(name, x, y) == [name |-> name, x |-> x, y |-> y]

\* matplotlib refuses x and y of different lengths (ValueError).
Drawable(ls) == \A k \in 1..Len(ls) : Len(ls[k].x) = Len(ls[k].y)

\* The four sub-plots of lines 71-115.
Figure1Lines(grid, a, ratio) ==
    << Line("male", PySlice(grid, 1, Len(grid)), Column(a, 0)),
       Line("female", PySlice(grid, 1, Len(grid)), Column(a, 1)),
       Line("male_ratio", PySlice(grid, 1, Len(grid)), ratio),
       Line("host", PySlice(grid, 1, Len(grid)), Column(a, 2)),
       Line("predator", PySlice(grid, 1, Len(grid)), Column(a, 3)) >>

\* Mutant: the animation takes its times from t[:frame].
animate_from_zero(frame) ==
    << Line("eel_total", PySlice(t, 0, frame),
            PySlice(EelTotal(states), 0, frame)),
       Line("host", PySlice(t, 0, frame),
            PySlice(Column(states, 2), 0, frame)),
       Line("predator", PySlice(t, 0, frame),
            PySlice(Column(states, 3), 0, frame)) >>

\* animate(frame), lines 136-140.
animate(frame) ==
    << Line("eel_total", PySlice(t, 1, frame + 1),
            PySlice(EelTotal(states), 0, frame)),
       Line("host", PySlice(t, 1, frame + 1),
            PySlice(Column(states, 2), 0, frame)),
       Line("predator", PySlice(t, 1, frame + 1),
            PySlice(Column(states, 3), 0, frame)) >>

\* The two sub-plots of lines 148-171.
Figure3Lines(grid, rl, a) ==
    << Line("resource", PySlice(grid, 1, Len(grid)), PySlice(rl, 1, Len(rl))),
       Line("eel_total", PySlice(grid, 1, Len(grid)), EelTotal(a)),
       Line("host", PySlice(grid, 1, Len(grid)), Column(a, 2)),
       Line("predator", PySlice(grid, 1, Len(grid)), Column(a, 3)) >>

\* ------------------------------------------------------------------ inputs
\* Strictly increasing grids of n points starting at 0.
Grids(n) ==
    { g \in [1..n -> 0..((n - 1) * MaxDt)] :
        /\ g[1] = 0
        /\ \A k \in 1..(n - 1) : g[k + 1] - g[k] \in 1..MaxDt }

\* Grids of n points that are not strictly increasing.
BadGrids(n) ==
    { g \in [1..n -> 0..MaxDt] : \E k \in 1..(n - 1) : g[k + 1] <= g[k] }

Schedules(n) == [1..n -> {0, 1}]

\* State vectors of n components, whole individuals from lo to hi.
StateVectors(n, lo, hi) == [1..n -> { x * UNIT : x \in lo..hi }]

\* The fixed test vector [10, 10, 100, 5].
TestVector == << 10 * UNIT, 10 * UNIT, 100 * UNIT, 5 * UNIT >>

\* What the script holds before the loop, lines 50-59.
Setup(grid, rl, y0) ==
    /\ t = grid
    /\ resource_levels = rl
    /\ initial_state = y0
    /\ current_state = y0
    /\ states = <<>>
    /\ i = 0
    /\ res = <<>>
    /\ male_ratio = <<>>
    /\ plotted = <<>>
    /\ error = ""
    /\ warned = {}
    /\ dydt = <<>>

Start(grid, rl, y0) ==
    /\ Setup(grid, rl, y0)
    /\ pc = AfterLoop(grid, 0)

\* Well-shaped inputs: N >= 2, aligned schedule, 4 non-negative components.
Init ==
    \E n \in 2..MaxN :
      \E grid \in Grids(n), rl \in Schedules(n),
         y0 \in StateVectors(4, 0, MaxPop) :
        Start(grid, rl, y0)

\* Inputs with one shape defect: a schedule of another length than the grid,
\* a state vector of 3 or 5 components, or a grid that does not increase.
InitShape ==
    \E n \in 2..MaxN :
      \/ \E grid \in Grids(n), len \in 1..(MaxN + 1),
            y0 \in StateVectors(4, 1, MaxPop) :
           /\ len # n
           /\ \E rl \in Schedules(len) : Start(grid, rl, y0)
      \/ \E grid \in Grids(n), rl \in Schedules(n), len \in {3, 5} :
           \E y0 \in StateVectors(len, 1, MaxPop) : Start(grid, rl, y0)
      \/ \E grid \in BadGrids(n), rl \in Schedules(n),
            y0 \in StateVectors(4, 1, MaxPop) :
           Start(grid, rl, y0)

\* Direct evaluation of the rate function: nothing has been evaluated yet.
InitRate ==
    /\ Setup(<<0, 1>>, <<0, 1>>, TestVector)
    /\ pc = "rate"


\* ----------------------------------------------------------------- actions
\* The script stops with an uncaught Python exception.
Raise(name) ==
    /\ pc' = "error"
    /\ error' = name

\* One iteration of the loop, lines 60-65.  resource_levels[i] is evaluated
\* before odeint is called (IndexError past the end of the schedule);
\* odeint calls ecosystem_model, whose unpacking of line 18 needs exactly 4
\* components (ValueError).
LoopStep ==
    /\ pc = "loop"
    /\ IF i + 1 > Len(resource_levels)
       THEN /\ Raise("IndexError")
            /\ UNCHANGED <<current_state, states, i, res>>
       ELSE IF Len(current_state) # 4
       THEN /\ Raise("ValueError")
            /\ UNCHANGED <<current_state, states, i, res>>
       ELSE LET b == LoopBody(current_state, states, t, resource_levels, i)
            IN  /\ res' = b.res
                /\ current_state' = b.current_state
                /\ states' = b.states
                /\ i' = i + 1
                /\ pc' = AfterLoop(t, i + 1)
                /\ error' = error
    /\ UNCHANGED <<t, resource_levels, initial_state, male_ratio, plotted,
                   warned, dydt>>

\* One iteration of the loop in which the solver does not converge: odeint
\* issues ODEintWarning and returns, its last row holding the state at the
\* time it reached (here: no progress, the start state).  Nothing is raised;
\* lines 64-65 run as usual.
LoopStepWarn ==
    /\ pc = "loop"
    /\ i + 1 <= Len(resource_levels)
    /\ Len(current_state) = 4
    /\ res' = <<current_state, current_state>>
    /\ current_state' = NextState(res')
    /\ states' = Append(states, current_state')
    /\ warned' = warned \cup {i}
    /\ i' = i + 1
    /\ pc' = AfterLoop(t, i + 1)
    /\ UNCHANGED <<t, resource_levels, initial_state, male_ratio, plotted,
                   error, dydt>>

\* The first figure, lines 71-118, with the male fraction of line 86.
Figure1 ==
    /\ pc = "fig1"
    /\ male_ratio' = MaleRatio(states)
    /\ LET ls == Figure1Lines(t, states, male_ratio')
       IN  IF Drawable(ls)
           THEN /\ plotted' = ls
                /\ pc' = "anim"
                /\ error' = error
           ELSE /\ Raise("ValueError")
                /\ plotted' = plotted
    /\ UNCHANGED <<t, resource_levels, initial_state, current_state, states,
                   i, res, warned, dydt>>

\* FuncAnimation draws one frame, lines 136-142: frames = len(t)-1.
Animate ==
    /\ pc = "anim"
    /\ \E frame \in 0..(Len(t) - 2) :
         LET ls == animate(frame)
         IN  IF Drawable(ls)
             THEN /\ plotted' = ls
                  /\ pc' = pc
                  /\ error' = error
             ELSE /\ Raise("ValueError")
                  /\ plotted' = plotted
    /\ UNCHANGED <<t, resource_levels, initial_state, current_state, states,
                   i, res, male_ratio, warned, dydt>>

\* The animation window is closed and the last figure drawn, lines 148-174.
Figure3 ==
    /\ pc = "anim"
    /\ LET ls == Figure3Lines(t, resource_levels, states)
       IN  IF Drawable(ls)
           THEN /\ plotted' = ls
                /\ pc' = "done"
                /\ error' = error
           ELSE /\ Raise("ValueError")
                /\ plotted' = plotted
    /\ UNCHANGED <<t, resource_levels, initial_state, current_state, states,
                   i, res, male_ratio, warned, dydt>>

\* A direct call ecosystem_model(state, t, resource_level).
EvalRate ==
    /\ pc = "rate"
    /\ \E st \in StateVectors(4, -MaxPop, MaxPop) \cup {TestVector},
          r \in {0, 1} :
         dydt' = [state |-> st, resource_level |-> r,
                  out |-> ecosystem_model(st, 0, r)]
    /\ pc' = "rated"
    /\ UNCHANGED <<t, resource_levels, initial_state, current_state,
                   states, i, res, male_ratio, plotted, error, warned>>

Next == LoopStep \/ Figure1 \/ Animate \/ Figure3

NextWarn == Next \/ LoopStepWarn

NextRate == EvalRate

\* The script on well-shaped inputs with a converging solver.
Spec == Init /\ [][Next]_vars

\* The script on inputs with a shape defect.
SpecShape == InitShape /\ [][Next]_vars

\* The script with a solver that may fail to converge on any sub-interval.
SpecWarn == Init /\ [][NextWarn]_vars

\* Direct evaluations of the rate function.
SpecRate == InitRate /\ [][NextRate]_vars


\* ------------------------------------------------------------------ claims
LoopDone == pc \in {"fig1", "anim", "done"}

\* C1: on a grid of N >= 2 points with an aligned schedule and a 4-component
\* initial state the loop ends without an exception having appended exactly
\* N-1 vectors; entry k (0-based) is the solver's endpoint for the
\* sub-interval [t[k], t[k+1]], i.e. the state at t[k+1], so the trajectory
\* starts at t[1]: the initial state is not appended as an entry of its own.
C1_Trajectory ==
    /\ pc # "error"
    /\ Len(states) = i
    /\ pc = "loop" => i < Len(t) - 1
    /\ LoopDone => Len(states) = Len(t) - 1
    /\ \A k \in 1..Len(states) :
         states[k] = odeint(IF k = 1 THEN initial_state ELSE states[k - 1],
                            <<t[k], t[k + 1]>>, resource_levels[k])[2]

C1_Witness ==
    /\ pc = "done"
    /\ Len(t) = 3
    /\ Len(states) = 2
    /\ states[1] # initial_state

\* C2: the step to t[i+1] is solved with the regime at the left index i, so
\* the first n trajectory entries are the same for every schedule that
\* agrees with the given one at indices 0..n-1; schedule entries further
\* right, the last one (index N-1) among them, have no influence.
C2_HoldLastValue ==
    /\ i > 0 => res = odeint(res[1], <<t[i], t[i + 1]>>, resource_levels[i])
    /\ \A rl2 \in Schedules(Len(t)) :
         (\A j \in 1..i : rl2[j] = resource_levels[j])
           => Integrate(initial_state, t, rl2, i).states = states

C2_Witness ==
    /\ pc = "done"
    /\ Len(t) = 3
    /\ resource_levels[1] = 0
    /\ resource_levels[2] = 1
    /\ states # Integrate(initial_state, t, <<0, 0, 1>>, 2).states
    /\ states = Integrate(initial_state, t, <<0, 1, 0>>, 2).states
    /\ states = Integrate(initial_state, t, <<0, 1, 1>>, 2).states

\* C3: every solve starts from the initial state (first iteration) or from
\* the previous trajectory entry, and the entry appended is the solver's
\* endpoint row unchanged, negative components included; nothing is raised.
C3_CarryForward ==
    /\ pc # "error"
    /\ i = 0 => (current_state = initial_state /\ Len(states) = 0)
    /\ i > 0 =>
         /\ res[1] = (IF i = 1 THEN initial_state ELSE states[i - 1])
         /\ states[i] = res[Len(res)]
         /\ current_state = states[i]

C3_Witness ==
    /\ i = 2
    /\ \E c \in 1..4 : states[1][c] < 0
    /\ res[1] = states[1]

\* C4: ecosystem_model returns [a*0.8*f - D, (1-a)*0.8*f - D,
\* 0.5*h - (0.05*h + 0.03*(m+f)*h), 0.04*p*(m+f) - 0.2*p] with
\* D = 0.1*(m+f) + 0.02*p*(m+f) and a = 0.78 (scarce) or 0.56 (abundant);
\* host and predator rates are the same under both regimes; the male rate
\* of [10, 10, 100, 5] under scarce is 2.24.  (Rates times 1000*UNIT^2.)
C4_RateFunction ==
    pc = "rated" =>
      LET m == dydt.state[1]
          f == dydt.state[2]
          h == dydt.state[3]
          p == dydt.state[4]
          a == IF dydt.resource_level = 0 THEN 78 ELSE 56
          D == 100 * (m + f) * UNIT + 20 * p * (m + f)
          other == ecosystem_model(dydt.state, 0, 1 - dydt.resource_level)
      IN  /\ dydt.out = << a * 8 * f * UNIT - D,
                           (100 - a) * 8 * f * UNIT - D,
                           500 * h * UNIT - (50 * h * UNIT + 30 * (m + f) * h),
                           40 * p * (m + f) - 200 * p * UNIT >>
          /\ other[3] = dydt.out[3]
          /\ other[4] = dydt.out[4]
          /\ (dydt.state = TestVector /\ dydt.resource_level = 0)
               => dydt.out[1] = 2240 * UNIT * UNIT

C4_Witness ==
    /\ pc = "rated"
    /\ dydt.state = TestVector
    /\ dydt.resource_level = 0
    /\ dydt.out[1] = 2240 * UNIT * UNIT

\* C5: a schedule whose length differs from the grid's, or an initial state
\* that has not exactly 4 components, is rejected before anything is
\* integrated or appended.
C5_ShapeRejected ==
    (Len(t) # Len(resource_levels) \/ Len(initial_state) # 4)
      => (Len(states) = 0 /\ i = 0 /\ pc \in {"loop", "error"})

\* C6: a grid that is not strictly increasing is rejected before anything
\* is integrated or appended.
C6_GridRejected ==
    (\E k \in 1..(Len(t) - 1) : t[k + 1] <= t[k])
      => (Len(states) = 0 /\ i = 0 /\ pc \in {"loop", "error"})

\* C7: a failed solve of sub-interval k is fatal: the run stops there, the
\* failed result is neither appended nor carried forward, and nothing is
\* handed to the plots.
C7_FailureFatal ==
    warned # {} =>
      /\ pc = "error"
      /\ \A k \in warned : Len(states) <= k

\* C8: where males + females = 0 the male fraction is a non-finite float
\* (nan for 0/0) and nothing is raised; at every other index it is the
\* quotient males / (males + females), and the totals are plotted in full.
C8_DegenerateRatio ==
    /\ pc # "error"
    /\ pc \in {"anim", "done"} =>
         /\ Len(male_ratio) = Len(states)
         /\ \A k \in 1..Len(states) :
              LET m == states[k][1]
                  f == states[k][2]
                  q == male_ratio[k]
              IN  /\ (m + f = 0) => q \in {NaN, PosInf, NegInf}
                  /\ (m = 0 /\ f = 0) => q = NaN
                  /\ (m + f # 0) => (q.den > 0 /\ q.num * (m + f) = m * q.den)
    /\ pc = "done" =>
         /\ plotted[2].name = "eel_total"
         /\ plotted[2].y = EelTotal(states)
         /\ Len(plotted[2].y) = Len(t) - 1

C8_Witness ==
    /\ pc = "done"
    /\ \E k \in 1..Len(states) :
         /\ states[k][1] = 0
         /\ states[k][2] = 0
         /\ states[k][3] > 0
         /\ male_ratio[k] = NaN

AllScarce == \A k \in 1..Len(resource_levels) : resource_levels[k] = 0

\* The trajectory of the same run under a schedule held at abundant.
AbundantRun ==
    Integrate(initial_state, t, [k \in 1..Len(t) |-> 1], Len(t) - 1).states

SeriesAt(name, k) ==
    CASE name = "male" -> states[k][1]
      [] name = "female" -> states[k][2]
      [] name = "host" -> states[k][3]
      [] name = "predator" -> states[k][4]
      [] name = "eel_total" -> states[k][1] + states[k][2]
      [] name = "male_ratio" -> MaleRatio(<<states[k]>>)[1]
      [] name = "resource" -> resource_levels[k + 1]

\* C10: the male fraction has N-1 entries, entry k from trajectory entry k;
\* every plotted line pairs equally long x and y, x[k] = t[k+1] and y[k]
\* the series' value at trajectory entry k; the figures plot N-1 points and
\* an animation frame f in 0..N-2 plots the first f.
C10_Aligned ==
    /\ pc \in {"anim", "done"} =>
         /\ Len(male_ratio) = Len(t) - 1
         /\ \A k \in 1..Len(male_ratio) :
              male_ratio[k] = MaleRatio(<<states[k]>>)[1]
    /\ \A n \in 1..Len(plotted) :
         /\ Len(plotted[n].x) = Len(plotted[n].y)
         /\ Len(plotted[n].y) <= Len(t) - 1
         /\ \A k \in 1..Len(plotted[n].y) :
              /\ plotted[n].x[k] = t[k + 1]
              /\ plotted[n].y[k] = SeriesAt(plotted[n].name, k)
    /\ pc = "done" =>
         \A n \in 1..Len(plotted) : Len(plotted[n].y) = Len(t) - 1

C10_Witness ==
    /\ pc = "anim"
    /\ Len(t) = 3
    /\ Len(plotted) = 3
    /\ plotted[1].name = "eel_total"
    /\ Len(plotted[1].x) = 1
    /\ plotted[1].x[1] = t[2]
    /\ plotted[1].y[1] = states[1][1] + states[1][2]

=============================================================================
